---- MODULE Spec2Model ----
(***************************************************************************)
(* Model of nwb_explorer/nwb_model_interpreter/nwb_reader.py (NWBReader).  *)
(*                                                                         *)
(* Python values are encoded as follows.                                   *)
(*   None / a value v      : NoneVal == <<>>  /  Some(v) == <<v>>          *)
(*   a list or tuple       : a sequence                                    *)
(*   a numpy array         : a sequence (1-D) or a sequence of rows (2-D)  *)
(*   NaN                   : the string-free marker NaN == -1 (data values *)
(*                           of the model are otherwise >= 1)              *)
(*   a raised exception    : status field of the result record             *)
(***************************************************************************)
EXTENDS Integers, Sequences, FiniteSets, TLC

VARIABLES
    \* ---- get_plottable_timeseries / get_timeseries_dimensions ----
    time_series,        \* the TimeSeries argument (shape, time encoding)
    resampling_size,    \* the resampling_size argument, 0 for None
    plotRet,            \* NoneVal, or Some(result of get_plottable_timeseries)
    dimRet,             \* NoneVal, or Some(result of get_timeseries_dimensions)
    \* ---- the container tree under self.nwbfile ----
    parent,             \* parent[i]: parent of node i (0 = the NWBFile, -1 = no parent)
    ntype,              \* ntype[i]: neurodata_type of node i
    \* ---- NWBReader instance ----
    data_interfaces,    \* self.__data_interfaces: NoneVal or Some(list of nodes)
    calls,              \* returns of get_data_interfaces: <<first, latest>> or <<>>
    treeAtFirst,        \* the tree (<<parent, ntype>>) at the first get_data_interfaces call
    reqArg,             \* the requirements the caller passes to has_all_requirements
    reqRet,             \* NoneVal, or Some([arg, ret]) of has_all_requirements
    parentsRet,         \* NoneVal, or Some([arg, status, ret]) of get_all_parents
    \* ---- the field graph under self.nwbfile.fields ----
    cells,              \* cells[i]: [kind, name] of value i of the field graph
    items,              \* items[i]: the mapping of value i, a sequence of <<key, value>>
    pathRet             \* NoneVal, or Some([arg, ret]) of the latest extract_time_series_path
                        \* on the field graph as it is

vars == <<time_series, resampling_size, plotRet, dimRet, parent, ntype,
          data_interfaces, calls, treeAtFirst, reqArg, reqRet, parentsRet,
          cells, items, pathRet>>

seriesVars == <<time_series, resampling_size, plotRet, dimRet>>
treeVars == <<parent, ntype>>
readerVars == <<data_interfaces, calls, treeAtFirst, reqArg, reqRet, parentsRet>>
graphVars == <<cells, items, pathRet>>

NoneVal == <<>>
Some(v) == <<v>>
IsNone(o) == o = <<>>
Get(o) == o[1]

----------------------------------------------------------------------------
(* Bounds of the model *)
MaxRows == 6        \* rows (time samples) of a TimeSeries' data
MaxChannels == 2    \* columns of two-dimensional data
MaxResample == 4    \* largest resampling_size
MaxRate == 2        \* largest rate
MaxStart == 1       \* largest starting_time

----------------------------------------------------------------------------
(* numpy primitives used by get_plottable_timeseries *)

NaN == 0 - 1

CeilDiv(a, b) == (a + b - 1) \div b

\* a[::step] on the leading dimension
Stride(a, step) == [i \in 1..CeilDiv(Len(a), step) |-> a[(i - 1) * step + 1]]

\* np.arange(0, n)
Arange(n) == [i \in 1..n |-> i - 1]

\* np.nan_to_num on one element
NanToNum(x) == IF x = NaN THEN 0 ELSE x

\* time_series.data: element (r, c) of the array; one NaN at row nanAt
DataVal(ts, r, c) == IF r = ts.nanAt /\ c = 1 THEN NaN ELSE 10 * r + c

\* time_series.data as an array: 1-D is a sequence, 2-D a sequence of rows
Data(ts) ==
    IF ts.ndim = 1
    THEN [r \in 1..ts.rows |-> DataVal(ts, r, 1)]
    ELSE [r \in 1..ts.rows |-> [c \in 1..ts.channels |-> DataVal(ts, r, c)]]

\* time_series.data.size: the number of elements of the array
DataSize(ts) == IF ts.ndim = 1 THEN ts.rows ELSE ts.rows * ts.channels

\* time_series.timestamps: one timestamp per row of data.  The dataset is the
\* one the file's library hands out, which is true in `if time_series.timestamps`
\* whenever it is present (ts.hasTimestamps)
Timestamps(ts) == [r \in 1..ts.rows |-> 3 * r + 1]

\* (a variant of Step that rounds the stride up instead of down)
Step_RoundUp(data_size, rs) == IF rs # 0 /\ data_size > rs THEN CeilDiv(data_size, rs) ELSE 1

\* step = data_size // resampling_size if (resampling_size and data_size > resampling_size) else 1
Step(data_size, rs) == IF rs # 0 /\ data_size > rs THEN data_size \div rs ELSE 1

\* get_mono_dimensional_timeseries_aux(values)
get_mono_dimensional_timeseries_aux(values, ndim, channels) ==
    IF ndim = 1
    THEN << [i \in 1..Len(values) |-> NanToNum(values[i])] >>
    ELSE [c \in 1..channels |-> [i \in 1..Len(values) |-> NanToNum(values[i][c])]]

\* the timestamps of the implicit branch:
\* (rate * step) * np.arange(0, data_size // step) + starting_time
ImplicitTimestamps(ts, data_size, step) ==
    LET ar == Arange(data_size \div step)
    IN  [i \in 1..Len(ar) |-> (ts.rate * step) * ar[i] + ts.starting_time]

\* get_plottable_timeseries(time_series, resampling_size)
get_plottable_timeseries(ts, rs) ==
    LET data_size == DataSize(ts)
        step == Step(data_size, rs)
        timestamps == IF ts.hasTimestamps
                      THEN Stride(Timestamps(ts), step)
                      ELSE ImplicitTimestamps(ts, data_size, step)
        time_series_array ==
            get_mono_dimensional_timeseries_aux(Stride(Data(ts), step), ts.ndim, ts.channels)
    IN  IF Len(time_series_array[1]) # Len(timestamps)
        THEN [status |-> "ValueError", timestamps |-> <<>>, channels |-> <<>>]
        ELSE [status |-> "ok", timestamps |-> timestamps, channels |-> time_series_array]

\* get_timeseries_dimensions(time_series)
get_timeseries_dimensions(ts) == IF ts.ndim = 1 THEN 1 ELSE ts.rows

----------------------------------------------------------------------------
(* The TimeSeries arguments of the model *)
SeriesInputs ==
    { [ndim |-> nd, rows |-> r, channels |-> c, hasTimestamps |-> h,
       rate |-> rt, starting_time |-> st, nanAt |-> na] :
        nd \in 1..2, r \in 1..MaxRows, c \in 1..MaxChannels, h \in BOOLEAN,
        rt \in 1..MaxRate, st \in 0..MaxStart, na \in 0..1 }

ValidSeries(ts) == ts.ndim = 1 => ts.channels = 1

----------------------------------------------------------------------------
(* Defaults of the parts of the state a specification leaves alone *)
SeriesIdle ==
    /\ time_series = [ndim |-> 1, rows |-> 1, channels |-> 1, hasTimestamps |-> FALSE,
                      rate |-> 1, starting_time |-> 0, nanAt |-> 0]
    /\ resampling_size = 0
    /\ plotRet = NoneVal
    /\ dimRet = NoneVal

TreeIdle == parent = <<>> /\ ntype = <<>>

ReaderIdle ==
    /\ data_interfaces = NoneVal
    /\ calls = <<>>
    /\ treeAtFirst = NoneVal
    /\ reqArg = <<>>
    /\ reqRet = NoneVal
    /\ parentsRet = NoneVal

GraphIdle ==
    /\ cells = <<>>
    /\ items = <<>>
    /\ pathRet = NoneVal

----------------------------------------------------------------------------
(* Specification of the series operations: the arguments are drawn in Init *)
InitSeries ==
    /\ time_series \in {ts \in SeriesInputs : ValidSeries(ts)}
    /\ resampling_size \in 0..MaxResample
    /\ plotRet = NoneVal
    /\ dimRet = NoneVal
    /\ TreeIdle /\ ReaderIdle /\ GraphIdle

GetPlottableTimeseries ==
    /\ plotRet' = Some(get_plottable_timeseries(time_series, resampling_size))
    /\ UNCHANGED <<time_series, resampling_size, dimRet, treeVars, readerVars, graphVars>>

GetTimeseriesDimensions ==
    /\ dimRet' = Some(get_timeseries_dimensions(time_series))
    /\ UNCHANGED <<time_series, resampling_size, plotRet, treeVars, readerVars, graphVars>>

NextSeries == GetPlottableTimeseries \/ GetTimeseriesDimensions

SpecSeries == InitSeries /\ [][NextSeries]_vars

----------------------------------------------------------------------------
(* Claims about the series operations *)

\* the stride the documentation states, in terms of a size n
DocStep(n, rs) == IF rs > 0 /\ n > rs THEN n \div rs ELSE 1

\* C2: for a one-dimensional series without explicit timestamps,
\* get_plottable_timeseries returns normally with exactly ceil(data_size/step)
\* timestamps, and timestamps[i] = rate*step*i + starting_time for every index i.
C2_ImplicitTimestamps ==
    (~IsNone(plotRet) /\ time_series.ndim = 1 /\ ~time_series.hasTimestamps) =>
        LET r == Get(plotRet)
            n == time_series.rows
            step == DocStep(n, resampling_size)
        IN  /\ r.status = "ok"
            /\ Len(r.timestamps) = CeilDiv(n, step)
            /\ \A i \in 0..(Len(r.timestamps) - 1) :
                   r.timestamps[i + 1] = time_series.rate * step * i + time_series.starting_time

\* C3: for a series with explicit timestamps (one per row), every returned
\* channel is as long as the returned timestamps, and when resampling_size is
\* given with data_size > resampling_size the number of returned timestamps is
\* ceil(data_size/step), data_size being the size the operation computes step from.
C3_ExplicitTimestamps ==
    (~IsNone(plotRet) /\ time_series.hasTimestamps) =>
        LET r == Get(plotRet)
            n == DataSize(time_series)
        IN  /\ r.status = "ok"
            /\ \A c \in 1..Len(r.channels) : Len(r.channels[c]) = Len(r.timestamps)
            /\ (resampling_size > 0 /\ n > resampling_size) =>
                   Len(r.timestamps) = CeilDiv(n, n \div resampling_size)

\* C7: get_timeseries_dimensions returns the channel count of the series: 1 for
\* one-dimensional data, the number of channels for two-dimensional data, which
\* is the number of channel sequences get_plottable_timeseries returns.
C7_DimensionsAreChannels ==
    ~IsNone(dimRet) =>
        /\ Get(dimRet) = (IF time_series.ndim = 1 THEN 1 ELSE time_series.channels)
        /\ (~IsNone(plotRet) /\ Get(plotRet).status = "ok") =>
               Get(dimRet) = Len(Get(plotRet).channels)

\* the case of C10: one-dimensional data, explicit timestamps, decimation asked for
C10_Case ==
    /\ ~IsNone(plotRet)
    /\ time_series.ndim = 1
    /\ time_series.hasTimestamps
    /\ resampling_size > 0
    /\ time_series.rows > resampling_size

\* C10: for one-dimensional data with explicit timestamps and
\* data_size > resampling_size >= 1, the number of timestamps and of values per
\* channel returned is at least resampling_size and less than 2*resampling_size.
C10_DecimatedSizeBound ==
    C10_Case =>
        LET r == Get(plotRet)
        IN  /\ r.status = "ok"
            /\ resampling_size <= Len(r.timestamps)
            /\ Len(r.timestamps) < 2 * resampling_size
            /\ \A c \in 1..Len(r.channels) :
                   /\ resampling_size <= Len(r.channels[c])
                   /\ Len(r.channels[c]) < 2 * resampling_size

\* C10 witness: a decimated result (stride above 1) strictly longer than resampling_size
C10_Witness ==
    /\ C10_Case
    /\ time_series.rows \div resampling_size >= 2
    /\ Len(Get(plotRet).timestamps) > resampling_size
    /\ Len(Get(plotRet).timestamps) < time_series.rows

----------------------------------------------------------------------------
(* The container tree: node 0 is the NWBFile (self.nwbfile), nodes 1..Len(par)
   are the containers of the file.  par[i] is i's parent (-1: no parent) and
   typ[i] its neurodata_type.  node.children enumerates in insertion order. *)

MaxNodes == 4       \* containers of a file in the discovery specification

NWB_ROOT == 0
NoParent == 0 - 1

Types == {"TimeSeries", "LFP", "ProcessingModule"}

\* isinstance(x, NWBDataInterface), by neurodata_type
DataInterfaceTypes == {"TimeSeries", "LFP"}

\* isinstance(child, NWBDataInterface)
IsDataInterface(typ, n) == typ[n] \in DataInterfaceTypes

RECURSIVE ChildrenFrom(_, _, _)
ChildrenFrom(par, n, i) ==
    IF i > Len(par) THEN <<>>
    ELSE (IF par[i] = n THEN <<i>> ELSE <<>>) \o ChildrenFrom(par, n, i + 1)

\* node.children
Children(par, n) == ChildrenFrom(par, n, 1)

\* (a variant of the discovery that does not descend below a data interface)
RECURSIVE NoDescentBelowInterface(_, _, _)
NoDescentBelowInterface(par, typ, chs) ==
    IF chs = <<>> THEN <<>>
    ELSE LET child == Head(chs)
         IN  (IF IsDataInterface(typ, child)
              THEN <<child>>
              ELSE NoDescentBelowInterface(par, typ, Children(par, child)))
             \o NoDescentBelowInterface(par, typ, Tail(chs))

\* the loop of _get_data_interfaces over a list of children
RECURSIVE DiscoverChildren(_, _, _)
DiscoverChildren(par, typ, chs) ==
    IF chs = <<>> THEN <<>>
    ELSE LET child == Head(chs)
         IN  (IF IsDataInterface(typ, child) THEN <<child>> ELSE <<>>)
             \o DiscoverChildren(par, typ, Children(par, child))
             \o DiscoverChildren(par, typ, Tail(chs))

\* self._get_data_interfaces(node)
_get_data_interfaces(par, typ, node) == DiscoverChildren(par, typ, Children(par, node))

\* `not self.__data_interfaces`: None and the empty list are both falsy
Falsy(cache) == IsNone(cache) \/ Get(cache) = <<>>

\* self.__data_interfaces after get_data_interfaces(); its value is what is returned
CacheAfterGet(cache, par, typ) ==
    IF Falsy(cache) THEN Some(_get_data_interfaces(par, typ, NWB_ROOT)) ELSE cache

\* a mutation of the container graph: a new container of type t under p
AddChild(p, t, bound) ==
    /\ Len(parent) < bound
    /\ parent' = Append(parent, p)
    /\ ntype' = Append(ntype, t)
    /\ UNCHANGED <<seriesVars, readerVars, graphVars>>

\* reader.get_data_interfaces()
GetDataInterfaces ==
    LET cache == CacheAfterGet(data_interfaces, parent, ntype)
        ret == Get(cache)
    IN  /\ data_interfaces' = cache
        /\ calls' = IF calls = <<>> THEN <<ret, ret>> ELSE <<calls[1], ret>>
        /\ treeAtFirst' = IF calls = <<>> THEN Some(<<parent, ntype>>) ELSE treeAtFirst
        /\ UNCHANGED <<seriesVars, treeVars, reqArg, reqRet, parentsRet, graphVars>>

InitDiscovery == SeriesIdle /\ TreeIdle /\ ReaderIdle /\ GraphIdle

NextDiscovery ==
    \/ \E p \in {NWB_ROOT} \cup (1..Len(parent)), t \in Types : AddChild(p, t, MaxNodes)
    \/ GetDataInterfaces

SpecDiscovery == InitDiscovery /\ [][NextDiscovery]_vars

----------------------------------------------------------------------------
(* Claims about the discovery *)

\* C1: every get_data_interfaces() call after the first returns the sequence the
\* first call returned, whatever mutations of the container graph happen in
\* between, also when the first call returned the empty sequence.
C1_LaterCallsReturnFirst == calls # <<>> => calls[2] = calls[1]

RECURSIVE PathFromRoot(_, _)
\* the nodes from the child of the root down to n (empty for the root)
PathFromRoot(par, n) ==
    IF n = NWB_ROOT \/ n = NoParent THEN <<>> ELSE Append(PathFromRoot(par, par[n]), n)

RECURSIVE UnderRoot(_, _)
UnderRoot(par, n) ==
    IF n = NWB_ROOT THEN TRUE ELSE IF n = NoParent THEN FALSE ELSE UnderRoot(par, par[n])

\* position of c in the child enumeration of its parent
ChildIndex(par, c) ==
    LET chs == Children(par, par[c]) IN CHOOSE k \in 1..Len(chs) : chs[k] = c

\* a comes before b in depth-first pre-order: a is an ancestor of b, or where
\* their paths from the root part, a's branch is enumerated before b's
PreOrderBefore(par, a, b) ==
    LET pa == PathFromRoot(par, a)
        pb == PathFromRoot(par, b)
        common == {k \in 1..Len(pa) : k <= Len(pb) /\ \A j \in 1..k : pa[j] = pb[j]}
        m == Cardinality(common)
    IN  IF m = Len(pa) THEN Len(pb) > Len(pa)
        ELSE IF m = Len(pb) THEN FALSE
        ELSE ChildIndex(par, pa[m + 1]) < ChildIndex(par, pb[m + 1])

\* C8: the first get_data_interfaces() call returns exactly the data-bearing
\* descendants of the root, each once, in depth-first pre-order; a data-bearing
\* node is included whatever the kind of its ancestors.
C8_FirstCallIsPreOrder ==
    calls # <<>> =>
        LET par == Get(treeAtFirst)[1]
            typ == Get(treeAtFirst)[2]
            r == calls[1]
        IN  /\ {r[i] : i \in 1..Len(r)} =
                 {n \in 1..Len(par) : UnderRoot(par, n) /\ typ[n] \in DataInterfaceTypes}
            /\ \A i, j \in 1..Len(r) : i < j => PreOrderBefore(par, r[i], r[j])

\* C8 witness: the first call found a data interface below a non-data
\* container and one below another data interface, and returned a node created
\* later before a node created earlier
C8_Witness ==
    /\ calls # <<>>
    /\ LET par == Get(treeAtFirst)[1]
           typ == Get(treeAtFirst)[2]
           r == calls[1]
       IN  /\ \E i \in 1..Len(r) : par[r[i]] # NWB_ROOT /\ typ[par[r[i]]] = "ProcessingModule"
           /\ \E i \in 1..Len(r) : par[r[i]] # NWB_ROOT /\ typ[par[r[i]]] \in DataInterfaceTypes
           /\ \E i, j \in 1..Len(r) : i < j /\ r[i] > r[j]

----------------------------------------------------------------------------
(* Requirements.  A Python string is a sequence of atoms; the atom "." is the
   dot, every other atom is a run of characters without a dot. *)

MaxReqNodes == 3    \* containers of a file where bare requirements are evaluated
MaxReqs == 2        \* longest list of requirements
MaxSegs == 3        \* most segments after the group name of a dotted requirement

\* the string made of one dot-free word
Str(w) == <<w>>

RECURSIVE SplitFrom(_, _)
SplitFrom(s, cur) ==
    IF s = <<>> THEN <<cur>>
    ELSE IF Head(s) = "." THEN <<cur>> \o SplitFrom(Tail(s), <<>>)
    ELSE SplitFrom(Tail(s), Append(cur, Head(s)))

\* requirement.split('.')
Split(s) == SplitFrom(s, <<>>)

\* NWBReader.nwb_map_id_api.get(name): NoneVal for an unknown name
nwb_map_id_api_get(name) ==
    IF name = Str("acquisition") THEN Some("acquisition")
    ELSE IF name = Str("analysis") THEN Some("analysis")
    ELSE IF name = Str("epochs") THEN Some("epochs")
    ELSE IF name = Str("processing") THEN Some("modules")
    ELSE IF name = Str("stimulus") THEN Some("stimulus")
    ELSE NoneVal

\* the accessor of the NWBFile a top-level container of type t is held in
GroupOf(t) == IF t = "ProcessingModule" THEN "modules" ELSE "acquisition"

RECURSIVE GroupValuesFrom(_, _, _, _)
GroupValuesFrom(par, typ, group, i) ==
    IF i > Len(par) THEN <<>>
    ELSE (IF par[i] = NWB_ROOT /\ GroupOf(typ[i]) = group THEN <<i>> ELSE <<>>)
         \o GroupValuesFrom(par, typ, group, i + 1)

\* list(getattr(self.nwbfile, group).values())
GroupValues(par, typ, group) == GroupValuesFrom(par, typ, group, 1)

\* an element of `nodes`: the mapping of a group, or a container
DictOf(group) == [isDict |-> TRUE, group |-> group, node |-> 0]
NodeOf(n) == [isDict |-> FALSE, group |-> "", node |-> n]

\* list(node.values()) if isinstance(node, dict) else node.children
ValuesOrChildren(par, typ, e) ==
    LET ids == IF e.isDict THEN GroupValues(par, typ, e.group) ELSE Children(par, e.node)
    IN  [i \in 1..Len(ids) |-> NodeOf(ids[i])]

\* the loop of _check_requirement_data_interfaces over the discovered list
MatchesDataInterface(typ, found, requirement) ==
    \E i \in 1..Len(found) : Str(typ[found[i]]) = requirement

\* self._check_requirement_data_interfaces(requirement): [ret, cache]
_check_requirement_data_interfaces(par, typ, requirement, cache) ==
    LET after == CacheAfterGet(cache, par, typ)
    IN  [ret |-> MatchesDataInterface(typ, Get(after), requirement), cache |-> after]

RECURSIVE FullPathLoop(_, _, _, _, _)
\* the iterations index, index+1, ... of the outer loop of _check_requirement_full_path;
\* the inner loop runs over the list `nodes` was bound to when it started and
\* rebinds `nodes` at every element, so the binding of the last element stays
FullPathLoop(par, typ, path_list, index, nodes) ==
    IF index > Len(path_list) - 2 THEN FALSE
    ELSE IF index = Len(path_list) - 2
    THEN \E i \in 1..Len(nodes) :
            LET vs == ValuesOrChildren(par, typ, nodes[i])
            IN  \E j \in 1..Len(vs) : Str(typ[vs[j].node]) = path_list[index + 2]
    ELSE FullPathLoop(par, typ, path_list, index + 1,
                      IF nodes = <<>> THEN nodes
                      ELSE ValuesOrChildren(par, typ, nodes[Len(nodes)]))

\* self._check_requirement_full_path(path_list)
_check_requirement_full_path(par, typ, path_list) ==
    LET group == nwb_map_id_api_get(path_list[1])
    IN  IF IsNone(group) THEN FALSE
        ELSE FullPathLoop(par, typ, path_list, 0, <<DictOf(Get(group))>>)

\* self._check_requirement(requirement): [ret, cache]
_check_requirement(par, typ, requirement, cache) ==
    LET list_string == Split(requirement)
    IN  IF Len(list_string) > 1
        THEN [ret |-> _check_requirement_full_path(par, typ, list_string), cache |-> cache]
        ELSE _check_requirement_data_interfaces(par, typ, requirement, cache)

\* (a variant of has_all_requirements with any() in the place of all())
RECURSIVE AnyRequirement(_, _, _, _)
AnyRequirement(par, typ, requirements, cache) ==
    IF requirements = <<>> THEN [ret |-> FALSE, cache |-> cache]
    ELSE LET one == _check_requirement(par, typ, Head(requirements), cache)
         IN  IF one.ret THEN one
             ELSE AnyRequirement(par, typ, Tail(requirements), one.cache)

\* all(self._check_requirement(r) for r in requirements): [ret, cache];
\* all() stops at the first requirement that is not satisfied
RECURSIVE has_all_requirements(_, _, _, _)
has_all_requirements(par, typ, requirements, cache) ==
    IF requirements = <<>> THEN [ret |-> TRUE, cache |-> cache]
    ELSE LET one == _check_requirement(par, typ, Head(requirements), cache)
         IN  IF one.ret
             THEN has_all_requirements(par, typ, Tail(requirements), one.cache)
             ELSE one

\* reader.has_all_requirements(reqArg)
HasAllRequirements ==
    LET r == has_all_requirements(parent, ntype, reqArg, data_interfaces)
    IN  /\ data_interfaces' = r.cache
        /\ reqRet' = Some([arg |-> reqArg, ret |-> r.ret])
        /\ UNCHANGED <<seriesVars, treeVars, calls, treeAtFirst, reqArg, parentsRet, graphVars>>

\* the files of at most n containers
Trees(n) ==
    UNION { {<<p, t>> : p \in {q \in [1..k -> 0..(k - 1)] : \A i \in 1..k : q[i] < i},
                        t \in [1..k -> Types]} : k \in 0..n }

\* a reader just constructed on a file of Trees(n), about to be asked for one of args
InitReq(n, args) ==
    /\ \E tr \in Trees(n) : parent = tr[1] /\ ntype = tr[2]
    /\ data_interfaces = NoneVal
    /\ calls = <<>>
    /\ treeAtFirst = NoneVal
    /\ reqArg \in args
    /\ reqRet = NoneVal
    /\ parentsRet = NoneVal
    /\ SeriesIdle /\ GraphIdle

\* bare requirement strings: the three types and the empty string
BareReqs == {Str(t) : t \in Types} \cup {<<>>}

BareLists == UNION {[1..k -> BareReqs] : k \in 0..MaxReqs}

InitReqBare == InitReq(MaxReqNodes, BareLists)

NextReqBare == HasAllRequirements

SpecReqBare == InitReqBare /\ [][NextReqBare]_vars

\* the first segments of the dotted requirements: recognised names, and
\* "modules", which names an accessor but is no key of nwb_map_id_api
GroupNames == {"acquisition", "processing", "modules"}

RECURSIVE Dotted(_)
\* the segments s1, ..., sk joined with dots
Dotted(segs) ==
    IF Len(segs) = 1 THEN Str(segs[1]) ELSE Str(segs[1]) \o <<".">> \o Dotted(Tail(segs))

DottedReqs ==
    {Dotted(<<g>> \o path) :
        g \in GroupNames, path \in UNION {[1..k -> Types] : k \in 1..MaxSegs}}

InitReqPath == InitReq(MaxNodes, {<<r>> : r \in DottedReqs})

NextReqPath == HasAllRequirements

SpecReqPath == InitReqPath /\ [][NextReqPath]_vars

----------------------------------------------------------------------------
(* Claims about the requirements *)

RECURSIVE Level(_, _, _, _)
\* the containers exactly k levels below the mapping of a group
Level(par, typ, group, k) ==
    IF k = 1 THEN {n \in 1..Len(par) : par[n] = NWB_ROOT /\ GroupOf(typ[n]) = group}
    ELSE {n \in 1..Len(par) : par[n] \in Level(par, typ, group, k - 1)}

RecognisedGroups == {"acquisition", "analysis", "epochs", "processing", "stimulus"}

AccessorOf(g) == IF g = "processing" THEN "modules" ELSE g

\* C4: a dotted requirement g.s1.....sk is unsatisfied when g is not a
\* recognised group name, and otherwise satisfied iff some container exactly k
\* levels below the group's mapping has neurodata_type sk.
C4_DottedRequirement ==
    ~IsNone(reqRet) =>
        \A g \in GroupNames, k \in 1..MaxSegs : \A path \in [1..k -> Types] :
            Get(reqRet).arg = <<Dotted(<<g>> \o path)>> =>
                Get(reqRet).ret =
                    (/\ g \in RecognisedGroups
                     /\ \E n \in Level(parent, ntype, AccessorOf(g), k) : ntype[n] = path[k])

IsBare(s) == \A i \in 1..Len(s) : s[i] # "."

\* the case of C5: has_all_requirements returned for a list of bare requirements
C5_Case ==
    /\ ~IsNone(reqRet)
    /\ \A i \in 1..Len(Get(reqRet).arg) : IsBare(Get(reqRet).arg[i])

\* the neurodata_types, as strings, of the data interfaces of the file
DiscoveredTypes ==
    {Str(ntype[n]) : n \in {m \in 1..Len(parent) :
                                UnderRoot(parent, m) /\ ntype[m] \in DataInterfaceTypes}}

\* C5: for a list R of bare requirements, has_all_requirements(R) is true iff
\* every string of R is the neurodata_type of some discovered data interface;
\* true for the empty list, false as soon as one requirement is unmatched.
C5_BareRequirements ==
    C5_Case =>
        LET R == Get(reqRet).arg
        IN  /\ Get(reqRet).ret = (\A i \in 1..Len(R) : R[i] \in DiscoveredTypes)
            /\ R = <<>> => Get(reqRet).ret
            /\ (\E i \in 1..Len(R) : R[i] \notin DiscoveredTypes) => ~Get(reqRet).ret

\* C5 witness: a list of two different requirements, both matched, is
\* satisfied in a file that also holds a container that is no data interface
C5_Witness ==
    /\ C5_Case
    /\ Len(Get(reqRet).arg) = 2
    /\ Get(reqRet).arg[1] # Get(reqRet).arg[2]
    /\ Get(reqRet).ret
    /\ \E n \in 1..Len(ntype) : ntype[n] = "ProcessingModule"

----------------------------------------------------------------------------
(* get_all_parents.  A returned list holds containers and, where the code puts
   one, a label. *)

ElementOf(n) == [label |-> "", node |-> n]
LabelOf(l) == [label |-> l, node |-> 0]

RECURSIVE CollectParents(_, _, _)
\* the while loop of get_all_parents: every container, the NWBFile included,
\* has the attribute `parent`; None (the parent of a detached container) has
\* not.  Containers are true in `not element`; only the NWBFile is named 'root'
CollectParents(par, element, parents) ==
    IF element = NoParent THEN parents
    ELSE IF element = NWB_ROOT THEN parents
    ELSE CollectParents(par, par[element], <<element>> \o parents)

\* get_all_parents(element): parentsnames is built and dropped, parents is returned
get_all_parents(par, typ, element) ==
    LET parents == CollectParents(par, element, <<>>)
        parentsnames == [i \in 1..Len(parents) |-> ElementOf(parents[i])]
        labelled == IF typ[parents[1]] = "ProcessingModule"
                    THEN <<LabelOf("processing")>> \o parentsnames
                    ELSE parentsnames
    IN  IF parents = <<>>
        THEN [status |-> "IndexError", ret |-> <<>>]
        ELSE [status |-> "ok", ret |-> [i \in 1..Len(parents) |-> ElementOf(parents[i])]]

\* a container that is attached to no parent
AddOrphan(t) ==
    /\ Len(parent) < MaxNodes
    /\ parent' = Append(parent, NoParent)
    /\ ntype' = Append(ntype, t)
    /\ UNCHANGED <<seriesVars, readerVars, graphVars>>

\* NWBReader.get_all_parents(element)
GetAllParents(element) ==
    /\ parentsRet' = Some([arg |-> element] @@ get_all_parents(parent, ntype, element))
    /\ UNCHANGED <<seriesVars, treeVars, data_interfaces, calls, treeAtFirst,
                   reqArg, reqRet, graphVars>>

InitParents == SeriesIdle /\ TreeIdle /\ ReaderIdle /\ GraphIdle

NextParents ==
    \/ \E p \in {NWB_ROOT} \cup (1..Len(parent)), t \in Types : AddChild(p, t, MaxNodes)
    \/ \E t \in Types : AddOrphan(t)
    \/ \E e \in {NWB_ROOT} \cup (1..Len(parent)) : GetAllParents(e)

SpecParents == InitParents /\ [][NextParents]_vars

\* C9: get_all_parents(node) returns the chain of containers from the topmost
\* one below the root (or without parent) down to the node, and the returned
\* chain starts with the label "processing" whenever the topmost collected
\* container is a processing module.
C9_ParentsChain ==
    (~IsNone(parentsRet) /\ Get(parentsRet).arg # NWB_ROOT) =>
        LET r == Get(parentsRet)
            chain == PathFromRoot(parent, r.arg)
            elements == [i \in 1..Len(chain) |-> ElementOf(chain[i])]
        IN  /\ r.status = "ok"
            /\ r.ret = IF ntype[chain[1]] = "ProcessingModule"
                       THEN <<LabelOf("processing")>> \o elements
                       ELSE elements

----------------------------------------------------------------------------
(* The field graph searched by extract_time_series_path, which the file's
   library builds; a change of the graph drops the result the caller holds.
   Value 1 is self.nwbfile.fields.  A value is a dict, an object exposing the
   attribute data_interfaces or else the attribute fields ("object"), or
   anything else ("scalar": None, a string, an array).  items[v] is the mapping
   of v: the dict itself, or the data_interfaces (else the fields) of the
   object, in iteration order.  Objects have a name.  A mapping holds values
   created after it, so the graph is acyclic; a value may be held by several
   mappings. *)

MaxCells == 4       \* values of the field graph, self.nwbfile.fields included
MaxAliases == 1     \* links: entries that hold an object already held elsewhere

NWB_ROOT_NAME == "root"
FIELDS == 1

Keys == {"a", "b"}

HasKey(m, k) == \E i \in 1..Len(m) : m[i][1] = k

\* dict[k], for a key of the dict
Lookup(m, k) == m[CHOOSE i \in 1..Len(m) : m[i][1] = k][2]

RECURSIVE find_from_key_recursive(_, _, _, _, _)
RECURSIVE FindInItems(_, _, _, _, _, _)

\* (a variant of FindInItems that puts the key in front of parents)
FindInItems_KeyInFront(cs, its, m, i, obj_to_find, parents) ==
    IF i > Len(m) THEN NoneVal
    ELSE LET allparents == find_from_key_recursive(cs, its, m[i][2], obj_to_find,
                                                   <<m[i][1]>> \o parents)
         IN  IF ~IsNone(allparents) THEN allparents
             ELSE FindInItems(cs, its, m, i + 1, obj_to_find, parents)

\* the loop `for k, v in dict_or_nwbobj.items()` from the i-th item on
FindInItems(cs, its, m, i, obj_to_find, parents) ==
    IF i > Len(m) THEN NoneVal
    ELSE LET allparents == find_from_key_recursive(cs, its, m[i][2], obj_to_find,
                                                   Append(parents, m[i][1]))
         IN  IF ~IsNone(allparents) THEN allparents
             ELSE FindInItems(cs, its, m, i + 1, obj_to_find, parents)

\* find_from_key_recursive(dict_or_nwbobj, obj_to_find, parents): NoneVal for
\* None, Some(parents) for a tuple; an object is searched through its
\* data_interfaces, else its fields, with the same parents
find_from_key_recursive(cs, its, v, obj_to_find, parents) ==
    IF cs[v].kind = "scalar" THEN NoneVal
    ELSE IF HasKey(its[v], obj_to_find.name) /\ Lookup(its[v], obj_to_find.name) = obj_to_find.id
    THEN Some(parents)
    ELSE FindInItems(cs, its, its[v], 1, obj_to_find, parents)

\* self.extract_time_series_path(time_series)
extract_time_series_path(cs, its, target) ==
    find_from_key_recursive(cs, its, FIELDS, target, <<>>)

\* the values of the model: dicts and scalars have no name
Values ==
    {[kind |-> kd, name |-> ""] : kd \in {"dict", "scalar"}}
    \cup {[kind |-> "object", name |-> nm] : nm \in Keys}

\* the number of entries of the mappings
RECURSIVE Entries(_, _)
Entries(its, i) == IF i > Len(its) THEN 0 ELSE Len(its[i]) + Entries(its, i + 1)

\* a new value held under key k by the mapping of h
AddValue(h, k, value) ==
    /\ Len(cells) < MaxCells
    /\ cells[h].kind # "scalar"
    /\ ~HasKey(items[h], k)
    /\ cells' = Append(cells, value)
    /\ items' = Append([items EXCEPT ![h] = Append(@, <<k, Len(cells) + 1>>)], <<>>)
    /\ pathRet' = NoneVal
    /\ UNCHANGED <<seriesVars, treeVars, readerVars>>

\* the existing object c held, once more, under key k by the mapping of h (a link)
AddAlias(h, k, c) ==
    /\ cells[h].kind # "scalar"
    /\ cells[c].kind = "object"
    /\ h < c
    /\ Entries(items, 1) - (Len(cells) - 1) < MaxAliases
    /\ ~HasKey(items[h], k)
    /\ \A i \in 1..Len(items[h]) : items[h][i][2] # c
    /\ items' = [items EXCEPT ![h] = Append(@, <<k, c>>)]
    /\ pathRet' = NoneVal
    /\ UNCHANGED <<seriesVars, treeVars, readerVars, cells>>

\* the objects a caller can pass: an object of the graph, or the NWBFile
\* itself (id 0), which no mapping holds
Targets ==
    {[name |-> cells[c].name, id |-> c] :
        c \in {d \in 1..Len(cells) : cells[d].kind = "object"}}
    \cup {[name |-> NWB_ROOT_NAME, id |-> NWB_ROOT]}

\* reader.extract_time_series_path(target)
ExtractTimeSeriesPath(target) ==
    /\ pathRet' = Some([arg |-> target, ret |-> extract_time_series_path(cells, items, target)])
    /\ UNCHANGED <<seriesVars, treeVars, readerVars, cells, items>>

InitPath ==
    /\ cells = <<[kind |-> "dict", name |-> ""]>>
    /\ items = << <<>> >>
    /\ pathRet = NoneVal
    /\ SeriesIdle /\ TreeIdle /\ ReaderIdle

NextPath ==
    \/ \E h \in 1..Len(cells), k \in Keys, value \in Values : AddValue(h, k, value)
    \/ \E h \in 1..Len(cells), k \in Keys, c \in 1..Len(cells) : AddAlias(h, k, c)
    \/ \E target \in Targets : ExtractTimeSeriesPath(target)

SpecPath == InitPath /\ [][NextPath]_vars

----------------------------------------------------------------------------
(* Claims about the path resolution *)

RECURSIVE ReachedBy(_, _, _)
\* the pairs <<path of keys, value>> reached from self.nwbfile.fields in
\* exactly n key lookups
ReachedBy(cs, its, n) ==
    IF n = 0 THEN {<<<<>>, FIELDS>>}
    ELSE UNION { {<<Append(pv[1], its[pv[2]][i][1]), its[pv[2]][i][2]>> :
                     i \in 1..Len(its[pv[2]])} :
                 pv \in {q \in ReachedBy(cs, its, n - 1) : cs[q[2]].kind # "scalar"} }

\* the key paths to the mappings that hold the target under its own name
HoldingPaths(cs, its, target) ==
    {pv[1] : pv \in {q \in UNION {ReachedBy(cs, its, n) : n \in 0..Len(cs)} :
                        /\ cs[q[2]].kind # "scalar"
                        /\ \E i \in 1..Len(its[q[2]]) :
                              its[q[2]][i] = <<target.name, target.id>>}}

\* C6 as stated: the path of a reachable target is the key path to a mapping
\* holding it under its own name; the result for an unreachable target, and for
\* the root itself, is the empty path.
C6_NotFoundIsEmptyPath ==
    ~IsNone(pathRet) =>
        LET r == Get(pathRet)
            holding == HoldingPaths(cells, items, r.arg)
        IN  IF holding # {}
            THEN ~IsNone(r.ret) /\ Get(r.ret) \in holding
            ELSE r.ret = Some(<<>>)

\* C6 amended: the path of a reachable target is the key path, in root-to-target
\* order, to a mapping holding it under its own name (the empty path when
\* self.nwbfile.fields itself holds it); the result for an unreachable target,
\* and for the root itself, is None, which is not the empty path.
C6_PathOrNone ==
    ~IsNone(pathRet) =>
        LET r == Get(pathRet)
            holding == HoldingPaths(cells, items, r.arg)
        IN  /\ IF holding # {}
               THEN ~IsNone(r.ret) /\ Get(r.ret) \in holding
               ELSE r.ret = NoneVal
            /\ r.arg.id = NWB_ROOT => r.ret = NoneVal
            /\ r.ret # Some(<<>>) \/ HasKey(items[FIELDS], r.arg.name)

\* C6 witness: a target two mapping levels below self.nwbfile.fields, the second
\* level entered through an object, resolved to its two keys
C6_Witness ==
    /\ ~IsNone(pathRet)
    /\ Get(pathRet).arg.id > 0
    /\ ~IsNone(Get(pathRet).ret)
    /\ Len(Get(Get(pathRet).ret)) = 2
    /\ LET r == Get(pathRet)
           p == Get(r.ret)
           group == Lookup(items[FIELDS], p[1])
           module == Lookup(items[group], p[2])
       IN  /\ cells[group].kind = "dict"
           /\ cells[module].kind = "object"
           /\ Lookup(items[module], r.arg.name) = r.arg.id

====
